---- MODULE Spec2Model ----
(***************************************************************************)
(* Beam-analysis engine and quiz page of the civil-engineering learning    *)
(* platform: src/app.py (SimpleBeam), pages/02 (BeamLevel2) and pages/03   *)
(* (quiz).  Python floats are modelled as exact rationals <<n, d>> in      *)
(* lowest terms with d > 0, so every identity below is the algebraic one;  *)
(* binary rounding of IEEE doubles is not represented.                     *)
(***************************************************************************)
EXTENDS Integers, Sequences, FiniteSets, TLC

VARIABLES
    page,        \* which script this session runs: "app", "level2" or "level3"
    beam,        \* the SimpleBeam / BeamLevel2 object of the page, or NoBeam
    reactions,   \* value returned by the last solve on the beam's current state
    profile,     \* value returned by the last section analysis, or NoProfile
    session,     \* st.session_state of the quiz page (a function on its keys)
    drawn,       \* the (L, P, x) of the latest generation, or the defaults
    view         \* locals and rendered elements of the last run of the quiz script

vars == <<page, beam, reactions, profile, session, drawn, view>>

----------------------------------------------------------------------------
(* Exact rational arithmetic standing for Python float arithmetic.         *)

Abs(n) == IF n < 0 THEN -n ELSE n

RECURSIVE GCD(_, _)
GCD(a, b) == IF b = 0 THEN a ELSE GCD(b, a % b)

\* the rational n/d (d # 0) in lowest terms with a positive denominator
Q(n, d) ==
    LET s == IF d < 0 THEN -1 ELSE 1
        g == GCD(Abs(n), Abs(d))
    IN  <<(s * n) \div g, Abs(d) \div g>>

I(n) == <<n, 1>>

QAdd(a, b) ==
    LET g == GCD(a[2], b[2])
    IN  Q(a[1] * (b[2] \div g) + b[1] * (a[2] \div g), a[2] * (b[2] \div g))

QNeg(a) == <<-a[1], a[2]>>

QSub(a, b) == QAdd(a, QNeg(b))

QMul(a, b) ==
    LET g1 == GCD(Abs(a[1]), b[2])
        g2 == GCD(Abs(b[1]), a[2])
    IN  <<(a[1] \div g1) * (b[1] \div g2), (a[2] \div g2) * (b[2] \div g1)>>

\* a / b for b # 0
QDiv(a, b) == QMul(a, IF b[1] < 0 THEN <<-b[2], -b[1]>> ELSE <<b[2], b[1]>>)

QLt(a, b) ==
    LET g == GCD(a[2], b[2])
    IN  a[1] * (b[2] \div g) < b[1] * (a[2] \div g)

QLe(a, b) ==
    LET g == GCD(a[2], b[2])
    IN  a[1] * (b[2] \div g) <= b[1] * (a[2] \div g)

QAbs(a) == <<Abs(a[1]), a[2]>>

QMin(a, b) == IF QLt(b, a) THEN b ELSE a

QMax(a, b) == IF QLt(a, b) THEN b ELSE a

----------------------------------------------------------------------------
(* Sampling of the beam axis.                                              *)

\* number of samples of every profile
NumSamples == 500

\* faulty variant: the end point left out (np.linspace(..., endpoint=False))
linspace_open(L) == [i \in 1..NumSamples |-> QMul(L, Q(i - 1, NumSamples))]

\* np.linspace(0, L, 500): 500 equally spaced positions, 0 and L included
linspace(L) == [i \in 1..NumSamples |-> QMul(L, Q(i - 1, NumSamples - 1))]

\* Python's max() of a non-empty list (halving keeps the recursion shallow)
RECURSIVE MaxIn(_, _, _)
MaxIn(s, lo, hi) ==
    IF lo = hi THEN s[lo]
    ELSE QMax(MaxIn(s, lo, (lo + hi) \div 2), MaxIn(s, (lo + hi) \div 2 + 1, hi))

MaxOf(s) == MaxIn(s, 1, Len(s))

----------------------------------------------------------------------------
(* src/app.py: SimpleBeam                                                  *)

NoBeam == [kind |-> "none"]
NoReactions == [status |-> "none"]
NoProfile == [status |-> "none"]

\* sum over the load list, as the for loop of solve_reactions accumulates it
RECURSIVE SumMoment(_, _)
SumMoment(loads, i) ==
    IF i > Len(loads) THEN I(0)
    ELSE QAdd(QMul(loads[i].P, loads[i].x), SumMoment(loads, i + 1))

RECURSIVE TotalLoad(_, _)
TotalLoad(loads, i) ==
    IF i > Len(loads) THEN I(0)
    ELSE QAdd(loads[i].P, TotalLoad(loads, i + 1))

\* SimpleBeam.solve_reactions: float division by a zero length raises
solve_reactions(length, loads) ==
    IF length = I(0) THEN [status |-> "ZeroDivisionError"]
    ELSE LET rb == QDiv(SumMoment(loads, 1), length)
             ra == QSub(TotalLoad(loads, 1), rb)
         IN  [status |-> "ok", ra |-> ra, rb |-> rb]

\* faulty variant: x >= load["x"], the load already taken off at its own position
RECURSIVE CutLoadsInclusive(_, _, _, _)
CutLoadsInclusive(loads, i, x, VM) ==
    IF i > Len(loads) THEN VM
    ELSE IF QLe(loads[i].x, x)
         THEN CutLoadsInclusive(loads, i + 1, x,
                       <<QSub(VM[1], loads[i].P),
                         QSub(VM[2], QMul(loads[i].P, QSub(x, loads[i].x)))>>)
         ELSE CutLoadsInclusive(loads, i + 1, x, VM)

\* shear and moment at one cut x of a SimpleBeam (the body of the x loop)
RECURSIVE CutLoads(_, _, _, _)
CutLoads(loads, i, x, VM) ==
    IF i > Len(loads) THEN VM
    ELSE IF QLt(loads[i].x, x)
         THEN CutLoads(loads, i + 1, x,
                       <<QSub(VM[1], loads[i].P),
                         QSub(VM[2], QMul(loads[i].P, QSub(x, loads[i].x)))>>)
         ELSE CutLoads(loads, i + 1, x, VM)

\* SimpleBeam.calculate_internal_forces(ra, rb)
calculate_internal_forces(length, loads, ra, rb) ==
    LET xs == linspace(length)
        vm == [i \in 1..NumSamples |->
                  CutLoads(loads, 1, xs[i], <<ra, QMul(ra, xs[i])>>)]
    IN  [status |-> "ok",
         x_vals |-> xs,
         V_vals |-> [i \in 1..NumSamples |-> vm[i][1]],
         M_vals |-> [i \in 1..NumSamples |-> vm[i][2]]]

\* bound on the length of SimpleBeam.loads
MaxLoads == 2

\* arguments tried.  With length 499/50 = 9.98 the samples are the multiples
\* of 0.02, so the positions 2 and 5 are sampled; with length 10 they are not.
\* Lengths -1 and 0, position 10 on the 9.98 span and the range (5, 2) are the
\* invalid geometries.  A changed beam drops the values returned for the old one.
Lengths == {I(-1), I(0), Q(499, 50), I(10)}
Positions == {I(0), I(2), I(5), I(10)}
PointLoads == {[P |-> I(100), x |-> I(5)], [P |-> I(30), x |-> I(2)],
               [P |-> I(-20), x |-> I(2)], [P |-> I(30), x |-> I(0)],
               [P |-> I(100), x |-> I(10)]}

\* SimpleBeam(length)
NewSimpleBeam(length) ==
    /\ page = "app"
    /\ beam' = [kind |-> "SimpleBeam", length |-> length, loads |-> <<>>]
    /\ reactions' = NoReactions
    /\ profile' = NoProfile
    /\ UNCHANGED <<page, session, drawn, view>>

\* beam.add_point_load(P, x)
add_point_load(P, x) ==
    /\ page = "app"
    /\ beam.kind = "SimpleBeam"
    /\ Len(beam.loads) < MaxLoads
    /\ beam' = [beam EXCEPT !.loads = Append(@, [type |-> "point", P |-> P, x |-> x])]
    /\ reactions' = NoReactions
    /\ profile' = NoProfile
    /\ UNCHANGED <<page, session, drawn, view>>

\* ra, rb = beam.solve_reactions()
SolveReactions ==
    /\ page = "app"
    /\ beam.kind = "SimpleBeam"
    /\ reactions' = solve_reactions(beam.length, beam.loads)
    /\ profile' = NoProfile
    /\ UNCHANGED <<page, beam, session, drawn, view>>

\* x_vals, V_vals, M_vals = beam.calculate_internal_forces(ra, rb)
CalculateInternalForces ==
    /\ page = "app"
    /\ beam.kind = "SimpleBeam"
    /\ reactions.status = "ok"
    /\ profile' = calculate_internal_forces(beam.length, beam.loads,
                                            reactions.ra, reactions.rb)
    /\ UNCHANGED <<page, beam, reactions, session, drawn, view>>

NextApp ==
    \/ \E length \in Lengths : NewSimpleBeam(length)
    \/ \E load \in PointLoads : add_point_load(load.P, load.x)
    \/ SolveReactions
    \/ CalculateInternalForces

----------------------------------------------------------------------------
(* pages/02: BeamLevel2 (one point load and one uniformly distributed load) *)

\* faulty variant: the covered length not clamped at the end of the segment
CoverLenUnclamped(udl, x) == QSub(x, udl.start)

\* cover_len = min(x, end) - start
CoverLen(udl, x) == QSub(QMin(x, udl.end), udl.start)

\* faulty variant: the arm taken to the end of the covered part, not its centroid
Level2UdlArmAtEnd(udl, x, cover_len, VM) ==
    IF QLt(I(0), cover_len)
    THEN LET force_segment == QMul(udl.w, cover_len)
             moment_arm == QSub(x, QAdd(udl.start, cover_len))
         IN  <<QSub(VM[1], force_segment),
               QSub(VM[2], QMul(force_segment, moment_arm))>>
    ELSE VM

\* the part of the UDL left of the cut x, taken off V and M when it has length
Level2Udl(udl, x, cover_len, VM) ==
    IF QLt(I(0), cover_len)
    THEN LET force_segment == QMul(udl.w, cover_len)
             moment_arm == QSub(x, QAdd(udl.start, QDiv(cover_len, I(2))))
         IN  <<QSub(VM[1], force_segment),
               QSub(VM[2], QMul(force_segment, moment_arm))>>
    ELSE VM

\* shear and moment at one cut x (the body of the x loop of solve_analysis)
Level2Cut(point_load, udl, ra, x) ==
    LET afterP == IF QLt(point_load.x, x)
                  THEN <<QSub(ra, point_load.P),
                         QSub(QMul(ra, x),
                              QMul(point_load.P, QSub(x, point_load.x)))>>
                  ELSE <<ra, QMul(ra, x)>>
    IN  IF QLt(udl.start, x)
        THEN Level2Udl(udl, x, CoverLen(udl, x), afterP)
        ELSE afterP

\* faulty variant: the resultant of the UDL placed at start + end, not the centre
Level2ReactionsNoHalving(L, point_load, udl) ==
    LET moment_from_point == QMul(point_load.P, point_load.x)
        udl_total_force == QMul(udl.w, QSub(udl.end, udl.start))
        udl_center == QAdd(udl.start, udl.end)
        moment_from_udl == QMul(udl_total_force, udl_center)
    IN  IF L = I(0) THEN [status |-> "ZeroDivisionError"]
        ELSE LET rb == QDiv(QAdd(moment_from_point, moment_from_udl), L)
                 ra == QSub(QAdd(point_load.P, udl_total_force), rb)
             IN  [status |-> "ok", ra |-> ra, rb |-> rb]

\* part A of solve_analysis: the reactions; dividing by a zero length raises
Level2Reactions(L, point_load, udl) ==
    LET moment_from_point == QMul(point_load.P, point_load.x)
        udl_total_force == QMul(udl.w, QSub(udl.end, udl.start))
        udl_center == QDiv(QAdd(udl.start, udl.end), I(2))
        moment_from_udl == QMul(udl_total_force, udl_center)
    IN  IF L = I(0) THEN [status |-> "ZeroDivisionError"]
        ELSE LET rb == QDiv(QAdd(moment_from_point, moment_from_udl), L)
                 ra == QSub(QAdd(point_load.P, udl_total_force), rb)
             IN  [status |-> "ok", ra |-> ra, rb |-> rb]

\* BeamLevel2.solve_analysis: reactions, then the 500-sample profile
solve_analysis(L, point_load, udl) ==
    LET r == Level2Reactions(L, point_load, udl)
    IN  IF r.status # "ok" THEN r
        ELSE LET xs == linspace(L)
                 vm == [i \in 1..NumSamples |->
                           Level2Cut(point_load, udl, r.ra, xs[i])]
             IN  [status |-> "ok", ra |-> r.ra, rb |-> r.rb,
                  x_vals |-> xs,
                  V_vals |-> [i \in 1..NumSamples |-> vm[i][1]],
                  M_vals |-> [i \in 1..NumSamples |-> vm[i][2]]]

Level2Magnitudes == {I(50)}
Intensities == {I(0), I(10)}
UdlRanges == {<<I(0), I(0)>>, <<I(0), I(5)>>, <<I(0), I(10)>>, <<I(2), I(5)>>,
              <<I(5), I(5)>>, <<I(5), I(2)>>, <<I(5), I(10)>>, <<I(2), I(9)>>}

\* BeamLevel2(length)
NewBeamLevel2(length) ==
    /\ page = "level2"
    /\ beam' = [kind |-> "BeamLevel2", length |-> length,
                point_load |-> [P |-> I(0), x |-> I(0)],
                udl |-> [w |-> I(0), start |-> I(0), end |-> I(0)]]
    /\ reactions' = NoReactions
    /\ profile' = NoProfile
    /\ UNCHANGED <<page, session, drawn, view>>

\* beam.set_loads(P, x_p, w, w_start, w_end)
set_loads(P, x_p, w, w_start, w_end) ==
    /\ page = "level2"
    /\ beam.kind = "BeamLevel2"
    /\ beam' = [beam EXCEPT !.point_load = [P |-> P, x |-> x_p],
                            !.udl = [w |-> w, start |-> w_start, end |-> w_end]]
    /\ reactions' = NoReactions
    /\ profile' = NoProfile
    /\ UNCHANGED <<page, session, drawn, view>>

\* ra, rb, xs, Vs, Ms = beam.solve_analysis()
SolveAnalysis ==
    /\ page = "level2"
    /\ beam.kind = "BeamLevel2"
    /\ \E r \in {solve_analysis(beam.length, beam.point_load, beam.udl)} :
           IF r.status = "ok"
           THEN /\ reactions' = [status |-> "ok", ra |-> r.ra, rb |-> r.rb]
                /\ profile' = [status |-> "ok", x_vals |-> r.x_vals,
                               V_vals |-> r.V_vals, M_vals |-> r.M_vals]
           ELSE /\ reactions' = [status |-> r.status]
                /\ profile' = NoProfile
    /\ UNCHANGED <<page, beam, session, drawn, view>>

NextLevel2 ==
    \/ \E length \in Lengths : NewBeamLevel2(length)
    \/ \E P \in Level2Magnitudes, x_p \in Positions, w \in Intensities,
          range \in UdlRanges :
          set_loads(P, x_p, w, range[1], range[2])
    \/ SolveAnalysis

----------------------------------------------------------------------------
(* pages/03: the quiz page.  One action is one run of the script, started  *)
(* by a page event; the widget values arrive with the event.               *)

\* solve_beam(L, P, x)
solve_beam(L, P, x) ==
    LET rb == QDiv(QMul(P, x), L)
        ra == QSub(P, rb)
    IN  <<ra, rb>>

\* the V/M loop of plot_answer(L, P, x, ra, rb); view.fig_ans records the
\* arguments of the call, which determine the figure
plot_answer(L, P, x, ra, rb) ==
    LET xs == linspace(L)
        vm == [i \in 1..NumSamples |->
                  IF QLt(x, xs[i])
                  THEN <<QSub(ra, P),
                         QSub(QMul(ra, xs[i]), QMul(P, QSub(xs[i], x)))>>
                  ELSE <<ra, QMul(ra, xs[i])>>]
    IN  [x_vals |-> xs,
         V_vals |-> [i \in 1..NumSamples |-> vm[i][1]],
         M_vals |-> [i \in 1..NumSamples |-> vm[i][2]]]

\* ranges of random.randint in the generate handler
MinL == 5
MaxL == 20
MinP == 10
MaxP == 200
MinX == 1

\* only every LStride-th length and every PStride-th load of the ranges is drawn
LStride == 5
PStride == 95

randint(a, b) == a..b

DrawnLengths == {l \in randint(MinL, MaxL) : (l - MinL) % LStride = 0}
DrawnLoads == {p \in randint(MinP, MaxP) : (p - MinP) % PStride = 0}

\* distance of a typed answer from the true reaction
Offsets == {Q(-1, 10), I(0), Q(999, 10000), Q(1, 10), Q(1001, 10000)}

\* tolerance of the submit handler
Tolerance == Q(1, 10)

NoFigure == [shown |-> FALSE]
None == <<"None">>

DefaultExam == [L |-> I(10), P |-> I(100), x |-> I(5), has_generated |-> FALSE]

\* if 'exam_data' not in st.session_state: initialise it
EnsureExamData(ss) ==
    IF "exam_data" \in DOMAIN ss THEN ss
    ELSE [k \in DOMAIN ss \cup {"exam_data"} |->
             IF k = "exam_data" THEN DefaultExam ELSE ss[k]]

\* faulty variant: the stored dict patched field by field, x forgotten
StoreExamPatched(ss, new_L, new_P, new_x) ==
    [ss EXCEPT !["exam_data"].L = I(new_L),
               !["exam_data"].P = new_P,
               !["exam_data"].has_generated = TRUE]

\* st.session_state.exam_data = {...}: one assignment of a whole new dict
StoreExam(ss, new_L, new_P, new_x) ==
    [ss EXCEPT !["exam_data"] =
        [L |-> I(new_L), P |-> new_P, x |-> new_x, has_generated |-> TRUE]]

\* faulty variant: <= 0.1
is_correct_inclusive(user, true) == QLe(QAbs(QSub(user, true)), Tolerance)

\* is_correct_ra / is_correct_rb
is_correct(user, true) == QLt(QAbs(QSub(user, true)), Tolerance)

\* faulty variant: or
either_correct(is_correct_ra, is_correct_rb) == is_correct_ra \/ is_correct_rb

\* if is_correct_ra and is_correct_rb
both_correct(is_correct_ra, is_correct_rb) == is_correct_ra /\ is_correct_rb

\* the script from the read of the current problem to its end
Render(ss, event, submitted, user_ra, user_rb) ==
    LET current_L == ss["exam_data"].L
        current_P == ss["exam_data"].P
        current_x == ss["exam_data"].x
        base == [event |-> event,
                 current_L |-> current_L, current_P |-> current_P,
                 current_x |-> current_x,
                 user_ra |-> None, user_rb |-> None,
                 true_ra |-> None, true_rb |-> None,
                 feedback |-> "none", warn_ra |-> FALSE, warn_rb |-> FALSE,
                 fig_ans |-> NoFigure]
    IN  IF ~submitted THEN base
        ELSE LET true == solve_beam(current_L, current_P, current_x)
                 is_correct_ra == is_correct(user_ra, true[1])
                 is_correct_rb == is_correct(user_rb, true[2])
                 judged == [base EXCEPT !.user_ra = user_ra, !.user_rb = user_rb,
                                        !.true_ra = true[1], !.true_rb = true[2]]
             IN  IF both_correct(is_correct_ra, is_correct_rb)
                 THEN [judged EXCEPT
                          !.feedback = "success",
                          !.fig_ans = [shown |-> TRUE,
                                       L |-> current_L, P |-> current_P,
                                       x |-> current_x,
                                       ra |-> true[1], rb |-> true[2]]]
                 ELSE [judged EXCEPT
                          !.feedback = "error",
                          !.warn_ra = ~is_correct_ra,
                          !.warn_rb = ~is_correct_rb]

\* faulty variant: the draw not guarded by the button, so every run redraws
RerenderRedraws ==
    /\ page = "level3"
    /\ \E new_L \in DrawnLengths :
          session' = StoreExam(EnsureExamData(session), new_L, I(MinP), I(MinX))
    /\ view' = Render(session', "render", FALSE, None, None)
    /\ drawn' = <<session'["exam_data"].L, session'["exam_data"].P,
                  session'["exam_data"].x>>
    /\ UNCHANGED <<page, beam, reactions, profile>>

\* a run with no button pressed (a widget was edited, or the page reloaded)
Rerender ==
    /\ page = "level3"
    /\ session' = EnsureExamData(session)
    /\ view' = Render(session', "render", FALSE, None, None)
    /\ UNCHANGED <<page, beam, reactions, profile, drawn>>

\* the generate button: draw, store, st.rerun()
GenerateNewProblem(new_L, new_P, new_x) ==
    /\ page = "level3"
    /\ session' = EnsureExamData(StoreExam(EnsureExamData(session), new_L, new_P, new_x))
    /\ drawn' = <<I(new_L), new_P, new_x>>
    /\ view' = Render(session', "generate", FALSE, None, None)
    /\ UNCHANGED <<page, beam, reactions, profile>>

\* the submit button with the widget values user_ra, user_rb
SubmitAnswer(user_ra, user_rb) ==
    /\ page = "level3"
    /\ session' = EnsureExamData(session)
    /\ view' = Render(session', "submit", TRUE, user_ra, user_rb)
    /\ UNCHANGED <<page, beam, reactions, profile, drawn>>

\* the reactions of the stored problem, from which the typed answers are offset
TrueReactions ==
    IF page = "level3"
    THEN LET e == EnsureExamData(session)["exam_data"]
         IN  <<QSub(e.P, QDiv(QMul(e.P, e.x), e.L)), QDiv(QMul(e.P, e.x), e.L)>>
    ELSE <<I(0), I(0)>>

NextQuiz ==
    \/ Rerender
    \/ \E new_L \in DrawnLengths, new_P \in DrawnLoads :
          \E new_x \in randint(MinX, new_L - 1) :
             GenerateNewProblem(new_L, I(new_P), I(new_x))
    \/ \E d_ra \in Offsets, d_rb \in Offsets :
          SubmitAnswer(QAdd(TrueReactions[1], d_ra), QAdd(TrueReactions[2], d_rb))

----------------------------------------------------------------------------

NoSession == <<>>

\* the state once the page has loaded: the quiz script has run once
Init ==
    /\ page \in {"app", "level2", "level3"}
    /\ beam = NoBeam
    /\ reactions = NoReactions
    /\ profile = NoProfile
    /\ session = IF page = "level3" THEN EnsureExamData(NoSession) ELSE NoSession
    /\ drawn = <<DefaultExam.L, DefaultExam.P, DefaultExam.x>>
    /\ view = IF page = "level3"
              THEN Render(session, "render", FALSE, None, None)
              ELSE None

Next == NextApp \/ NextLevel2 \/ NextQuiz

Spec == Init /\ [][Next]_vars

\* the two engine pages alone
InitBeam == Init /\ page \in {"app", "level2"}
NextBeam == NextApp \/ NextLevel2
SpecBeam == InitBeam /\ [][NextBeam]_vars

\* the point-load page alone
InitApp == Init /\ page = "app"
SpecApp == InitApp /\ [][NextApp]_vars

\* the quiz page alone
InitQuiz == Init /\ page = "level3"
SpecQuiz == InitQuiz /\ [][NextQuiz]_vars

----------------------------------------------------------------------------
(* Properties of the equilibrium solver and the section analyzer.          *)

Zero == I(0)

InSpan(x, L) == QLe(Zero, x) /\ QLe(x, L)

\* the geometry the data model calls valid: L > 0, loads on the span, start <= end
ValidGeometry ==
    CASE beam.kind = "SimpleBeam" ->
            /\ QLt(Zero, beam.length)
            /\ \A k \in 1..Len(beam.loads) : InSpan(beam.loads[k].x, beam.length)
      [] beam.kind = "BeamLevel2" ->
            /\ QLt(Zero, beam.length)
            /\ InSpan(beam.point_load.x, beam.length)
            /\ InSpan(beam.udl.start, beam.length)
            /\ InSpan(beam.udl.end, beam.length)
            /\ QLe(beam.udl.start, beam.udl.end)
      [] OTHER -> FALSE

\* total applied load and its moment about the left support, from the loads
RECURSIVE AppliedLoad(_)
AppliedLoad(loads) ==
    IF loads = <<>> THEN Zero
    ELSE QAdd(Head(loads).P, AppliedLoad(Tail(loads)))

RECURSIVE AppliedMoment(_)
AppliedMoment(loads) ==
    IF loads = <<>> THEN Zero
    ELSE QAdd(QMul(Head(loads).P, Head(loads).x), AppliedMoment(Tail(loads)))

UdlForce(udl) == QMul(udl.w, QSub(udl.end, udl.start))

\* integral of w * x over [start, end]
UdlMoment(udl) ==
    QDiv(QMul(udl.w, QSub(QMul(udl.end, udl.end), QMul(udl.start, udl.start))), I(2))

\* C1: on a valid beam the returned reactions are in equilibrium with the
\* loads: Ra + Rb is the total applied load and Rb * L is the moment of the
\* loads about the left support, for SimpleBeam.solve_reactions,
\* BeamLevel2.solve_analysis and the quiz's solve_beam.
C1_Equilibrium ==
    /\ (beam.kind = "SimpleBeam" /\ reactions.status = "ok" /\ ValidGeometry) =>
          /\ QAdd(reactions.ra, reactions.rb) = AppliedLoad(beam.loads)
          /\ QMul(reactions.rb, beam.length) = AppliedMoment(beam.loads)
    /\ (beam.kind = "BeamLevel2" /\ reactions.status = "ok" /\ ValidGeometry) =>
          /\ QAdd(reactions.ra, reactions.rb) =
                QAdd(beam.point_load.P, UdlForce(beam.udl))
          /\ QMul(reactions.rb, beam.length) =
                QAdd(QMul(beam.point_load.P, beam.point_load.x), UdlMoment(beam.udl))
    /\ (page = "level3" /\ view.event = "submit") =>
          /\ QAdd(view.true_ra, view.true_rb) = view.current_P
          /\ QMul(view.true_rb, view.current_L) = QMul(view.current_P, view.current_x)

\* a valid Level 2 beam carrying a point load and a UDL of positive length, solved
C1_Witness ==
    /\ beam.kind = "BeamLevel2"
    /\ reactions.status = "ok"
    /\ ValidGeometry
    /\ beam.point_load.P # Zero
    /\ QLt(Zero, beam.point_load.x)
    /\ beam.udl.w # Zero
    /\ QLt(beam.udl.start, beam.udl.end)

\* C2: solving a beam of invalid geometry fails with InvalidGeometry and
\* returns neither reactions nor a profile.
C2_InvalidGeometryFails ==
    (beam.kind # "none" /\ ~ValidGeometry /\ reactions.status # "none") =>
        /\ reactions.status = "InvalidGeometry"
        /\ profile = NoProfile

\* C10: on a valid beam the profile starts at (x = 0, V = Ra, M = 0) and its
\* last sample is at x = L with M = 0.
C10_MomentClosure ==
    (beam.kind # "none" /\ ValidGeometry /\ profile.status = "ok") =>
        /\ profile.x_vals[1] = Zero
        /\ profile.V_vals[1] = reactions.ra
        /\ profile.M_vals[1] = Zero
        /\ profile.x_vals[NumSamples] = beam.length
        /\ profile.M_vals[NumSamples] = Zero

\* a valid Level 2 beam analysed with the point load at the right support and
\* a UDL running from the left support
C10_Witness ==
    /\ beam.kind = "BeamLevel2"
    /\ ValidGeometry
    /\ profile.status = "ok"
    /\ beam.point_load.x = beam.length
    /\ beam.udl.start = Zero
    /\ beam.udl.w # Zero
    /\ QLt(beam.udl.start, beam.udl.end)

Samples == 1..NumSamples

\* C7 on SimpleBeam: sub[m][i] says that load m lies strictly left of sample i;
\* for a load k and samples i, j with x_i <= x_k < x_j and no other load in
\* [x_i, x_j), the shear drops by exactly P_k from i to j.
C7_AppJump ==
    \A sub \in {[m \in 1..Len(beam.loads) |->
                   [i \in Samples |-> QLt(beam.loads[m].x, profile.x_vals[i])]]} :
      \A k \in 1..Len(beam.loads) :
        \A below \in {[i \in Samples |-> QSub(profile.V_vals[i], beam.loads[k].P)]} :
          \A i \in {a \in Samples : ~sub[k][a]}, j \in {b \in Samples : sub[k][b]} :
             (\A m \in 1..Len(beam.loads) : m = k \/ sub[m][i] \/ ~sub[m][j])
                => profile.V_vals[j] = below[i]

\* C7 on BeamLevel2: the same for its point load, the UDL not acting between
\* the two samples (no intensity, no length, ended by x_i or not begun by x_j).
C7_Level2Jump ==
    \A sub \in {[i \in Samples |-> QLt(beam.point_load.x, profile.x_vals[i])]} :
      \A ended \in {[i \in Samples |-> QLe(beam.udl.end, profile.x_vals[i])]} :
        \A notbegun \in {[i \in Samples |-> QLe(profile.x_vals[i], beam.udl.start)]} :
          \A below \in {[i \in Samples |-> QSub(profile.V_vals[i], beam.point_load.P)]} :
            \A i \in {a \in Samples : ~sub[a]}, j \in {b \in Samples : sub[b]} :
               (\/ beam.udl.w = Zero
                \/ QLe(beam.udl.end, beam.udl.start)
                \/ ended[i]
                \/ notbegun[j])
                  => profile.V_vals[j] = below[i]

\* C7: a sample at the position of a point load still carries the load (left
\* limit) and every sample right of it has P taken off: two samples
\* x1 <= xp < x2 with no other load acting between them differ in shear by
\* exactly P.
C7_ShearJump ==
    /\ (beam.kind = "SimpleBeam" /\ profile.status = "ok") => C7_AppJump
    /\ (beam.kind = "BeamLevel2" /\ profile.status = "ok") => C7_Level2Jump

\* an analysed beam with a sample exactly at an interior point load, the shear
\* dropping by P to the next sample
C7_Witness ==
    /\ beam.kind = "SimpleBeam"
    /\ profile.status = "ok"
    /\ Len(beam.loads) = 1
    /\ \E i \in 2..(NumSamples - 1) :
          /\ profile.x_vals[i] = beam.loads[1].x
          /\ profile.V_vals[i] = reactions.ra
          /\ profile.V_vals[i + 1] = QSub(reactions.ra, beam.loads[1].P)

\* C8: a UDL of zero intensity or zero length changes nothing: on L > 0 the
\* Level 2 solve succeeds and returns the reactions and the samples of the
\* point-load engine with the single load (P, xp).
C8_DegenerateUdl ==
    (/\ beam.kind = "BeamLevel2"
     /\ QLt(Zero, beam.length)
     /\ (beam.udl.w = Zero \/ beam.udl.start = beam.udl.end)
     /\ reactions.status # "none") =>
        \A loads \in {<<[type |-> "point", P |-> beam.point_load.P,
                                          x |-> beam.point_load.x]>>} :
          \A r \in {solve_reactions(beam.length, loads)} :
             /\ r.status = "ok"
             /\ reactions = r
             /\ profile = calculate_internal_forces(beam.length, loads, r.ra, r.rb)

\* a solved Level 2 beam whose UDL has intensity but no length, inside the span
C8_Witness ==
    /\ beam.kind = "BeamLevel2"
    /\ QLt(Zero, beam.length)
    /\ beam.udl.w # Zero
    /\ beam.udl.start = beam.udl.end
    /\ QLt(Zero, beam.udl.start)
    /\ QLt(beam.udl.start, beam.length)
    /\ profile.status = "ok"

\* an analysed SimpleBeam with one load P > 0 strictly inside the span
SinglePointLoad ==
    /\ beam.kind = "SimpleBeam"
    /\ profile.status = "ok"
    /\ Len(beam.loads) = 1
    /\ QLt(Zero, beam.loads[1].P)
    /\ QLt(Zero, beam.loads[1].x)
    /\ QLt(beam.loads[1].x, beam.length)

IsExample ==
    /\ beam.length = I(10)
    /\ beam.loads[1].P = I(100)
    /\ beam.loads[1].x = I(5)

\* shear is Ra up to and at the load and Ra - P right of it
C9_Shear ==
    \A i \in Samples :
        profile.V_vals[i] =
            IF QLt(beam.loads[1].x, profile.x_vals[i])
            THEN QSub(reactions.ra, beam.loads[1].P)
            ELSE reactions.ra

C9_Reactions ==
    /\ reactions.rb = QDiv(QMul(beam.loads[1].P, beam.loads[1].x), beam.length)
    /\ reactions.ra = QDiv(QMul(beam.loads[1].P,
                                QSub(beam.length, beam.loads[1].x)), beam.length)

\* C9 as stated: the largest sampled moment is Ra * xp, attained at a sample
\* x = xp; in the example it is 250 at x = 5.
C9_MaxMomentAtLoad ==
    SinglePointLoad =>
        /\ C9_Reactions
        /\ C9_Shear
        /\ MaxOf(profile.M_vals) = QMul(reactions.ra, beam.loads[1].x)
        /\ \E i \in Samples :
              /\ profile.x_vals[i] = beam.loads[1].x
              /\ profile.M_vals[i] = MaxOf(profile.M_vals)
        /\ IsExample =>
              /\ reactions.ra = I(50)
              /\ reactions.rb = I(50)
              /\ MaxOf(profile.M_vals) = I(250)

\* C9 amended: the largest sampled moment never exceeds Ra * xp and equals it
\* exactly when xp is one of the 500 sample positions; in the example x = 5 is
\* not sampled, the shear falls from 50 to -50 between the two middle samples
\* and the largest sampled moment is 124500/499.
C9_SampledMaxMoment ==
    SinglePointLoad =>
        /\ C9_Reactions
        /\ C9_Shear
        /\ QLe(MaxOf(profile.M_vals), QMul(reactions.ra, beam.loads[1].x))
        /\ (MaxOf(profile.M_vals) = QMul(reactions.ra, beam.loads[1].x))
              <=> (\E i \in Samples : profile.x_vals[i] = beam.loads[1].x)
        /\ IsExample =>
              /\ reactions.ra = I(50)
              /\ reactions.rb = I(50)
              /\ profile.V_vals[NumSamples \div 2] = I(50)
              /\ profile.V_vals[NumSamples \div 2 + 1] = I(-50)
              /\ \A i \in Samples : profile.x_vals[i] # I(5)
              /\ MaxOf(profile.M_vals) = Q(124500, 499)

\* the example beam L = 10, P = 100, x = 5, analysed
C9_Witness == SinglePointLoad /\ IsExample

----------------------------------------------------------------------------
(* Properties of the quiz page.                                            *)

\* the reactions of the problem the run displayed, by statics
ExpectedRa == QDiv(QMul(view.current_P, QSub(view.current_L, view.current_x)),
                   view.current_L)
ExpectedRb == QDiv(QMul(view.current_P, view.current_x), view.current_L)

Tenth == Q(1, 10)

ErrRa == QAbs(QSub(view.user_ra, ExpectedRa))
ErrRb == QAbs(QSub(view.user_rb, ExpectedRb))

Judged(okRa, okRb) ==
    /\ view.feedback = IF okRa /\ okRb THEN "success" ELSE "error"
    /\ view.feedback = "error" => (view.warn_ra = ~okRa /\ view.warn_rb = ~okRb)

C4_ProblemWellFormed ==
    page = "level3" =>
        /\ "exam_data" \in DOMAIN session
        /\ <<view.current_L, view.current_P, view.current_x>> = drawn
        /\ <<session["exam_data"].L, session["exam_data"].P,
             session["exam_data"].x>> = drawn
        /\ QLe(I(5), view.current_L) /\ QLe(view.current_L, I(20))
        /\ QLe(I(10), view.current_P) /\ QLe(view.current_P, I(200))
        /\ QLe(I(1), view.current_x)
        /\ QLe(view.current_x, QSub(view.current_L, I(1)))
        /\ view.current_L[2] = 1 /\ view.current_P[2] = 1 /\ view.current_x[2] = 1

\* a generated problem with the load one metre from the right support, read
\* by a run that judged a submission
C4_Witness ==
    /\ page = "level3"
    /\ session["exam_data"].has_generated
    /\ view.event = "submit"
    /\ view.current_L # DefaultExam.L
    /\ view.current_x = QSub(view.current_L, I(1))

\* C5: a run that re-renders or judges a submission leaves the stored
\* problem as it was; only the generate button changes it.
C5_ProblemKeptUntilGenerate ==
    [][(page = "level3" /\ view'.event \in {"render", "submit"}) =>
          /\ "exam_data" \in DOMAIN session'
          /\ session'["exam_data"] = session["exam_data"]]_vars

\* a generated problem still stored, unchanged, after an accepted submission
C5_Witness ==
    /\ page = "level3"
    /\ session["exam_data"].has_generated
    /\ view.event = "submit"
    /\ view.feedback = "success"
    /\ <<view.current_L, view.current_P, view.current_x>> =
          <<session["exam_data"].L, session["exam_data"].P, session["exam_data"].x>>

\* C6: the answer figure is on the page only in a run that judged a
\* submission correct, both answers within the tolerance of the reactions of
\* the stored problem, and it is the figure of that problem.
C6_RewardGating ==
    (page = "level3" /\ view.fig_ans.shown) =>
        /\ view.event = "submit"
        /\ view.feedback = "success"
        /\ QLt(ErrRa, Tenth)
        /\ QLt(ErrRb, Tenth)
        /\ view.fig_ans.L = session["exam_data"].L
        /\ view.fig_ans.P = session["exam_data"].P
        /\ view.fig_ans.x = session["exam_data"].x
        /\ view.fig_ans.ra = ExpectedRa
        /\ view.fig_ans.rb = ExpectedRb

\* the figure of a generated problem on the page, its moment diagram closing
\* at the right support
C6_Witness ==
    /\ page = "level3"
    /\ view.fig_ans.shown
    /\ session["exam_data"].has_generated
    /\ plot_answer(view.fig_ans.L, view.fig_ans.P, view.fig_ans.x,
                   view.fig_ans.ra, view.fig_ans.rb).M_vals[NumSamples] = Zero

====
